---- MODULE Spec2Model ----
(***************************************************************************)
(* Model of the packet framing and dispatch layer of mqtt-rs:              *)
(*   src/src/packet/mod.rs        Packet contract, blanket Encodable /     *)
(*                                Decodable, VariablePacket dispatcher     *)
(*   src/src/packet/disconnect.rs DisconnectPacket                         *)
(* The fixed header codec (module `control`) and the thirteen other packet *)
(* kinds are not part of these two files; they are modelled from the       *)
(* written specification (sections 4.1, 4.2 and 6).                        *)
(*                                                                         *)
(* One byte buffer is first filled (by encoders and by a peer that may     *)
(* write arbitrary bytes) and is then read through a cursor by the decode  *)
(* entry points.                                                           *)
(***************************************************************************)
EXTENDS Integers, Sequences, FiniteSets, TLC

\* ------------------------------------------------------------------ bounds
MaxStream == 4
MaxBody == 1
MaxWant == 2
MaxCalls == 3
MaxSuppliedLen == 1
MaxSuppliedStream == 2

\* Bytes an arbitrary peer may put on the wire: 0x00 (unmapped tag / length
\* 0), 0x01 (length 1), 0x10 (Connect tag), 0xE0 (Disconnect tag, and as a
\* length byte 0x60 with the continuation bit set).
RawBytes == {0, 1, 16, 224}

\* Bytes used for the bodies of packets built by the encoders.
BodyBytes == {1, 224}

Min(a, b) == IF a < b THEN a ELSE b

\* ------------------------------------------------- control types (control)
ControlTypes ==
  {"Connect", "ConnectAcknowledgement", "Publish", "PublishAcknowledgement",
   "PublishReceived", "PublishRelease", "PublishComplete", "Subscribe",
   "SubscribeAcknowledgement", "Unsubscribe", "UnsubscribeAcknowledgement",
   "PingRequest", "PingResponse", "Disconnect"}

ControlCode(ct) ==
  CASE ct = "Connect" -> 1
    [] ct = "ConnectAcknowledgement" -> 2
    [] ct = "Publish" -> 3
    [] ct = "PublishAcknowledgement" -> 4
    [] ct = "PublishReceived" -> 5
    [] ct = "PublishRelease" -> 6
    [] ct = "PublishComplete" -> 7
    [] ct = "Subscribe" -> 8
    [] ct = "SubscribeAcknowledgement" -> 9
    [] ct = "Unsubscribe" -> 10
    [] ct = "UnsubscribeAcknowledgement" -> 11
    [] ct = "PingRequest" -> 12
    [] ct = "PingResponse" -> 13
    [] ct = "Disconnect" -> 14

\* PacketType::with_default: the fixed flags nibble of a control type.
DefaultFlags(ct) ==
  IF ct \in {"PublishRelease", "Subscribe", "Unsubscribe"} THEN 2 ELSE 0

FixedHeaderNew(ct, flags, len) ==
  [control_type |-> ct, flags |-> flags, remaining_length |-> len]

NoHeader == FixedHeaderNew("None", 0, 0)

\* ------------------------------------------------ fixed header codec (4.1)
MaxVarintBytes == 4

RECURSIVE Pow128(_)
Pow128(i) == IF i = 0 THEN 1 ELSE 128 * Pow128(i - 1)

RECURSIVE EncodeRemainingLength(_)
EncodeRemainingLength(n) ==
  IF n < 128 THEN <<n>>
  ELSE <<(n % 128) + 128>> \o EncodeRemainingLength(n \div 128)

FixedHeaderEncode(fh) ==
  <<ControlCode(fh.control_type) * 16 + fh.flags>>
    \o EncodeRemainingLength(fh.remaining_length)

FixedHeaderEncodedLength(fh) == Len(FixedHeaderEncode(fh))

RECURSIVE DecodeRemainingLength(_, _, _, _)
DecodeRemainingLength(buf, pos, i, cur) ==
  IF i >= MaxVarintBytes
  THEN [ok |-> FALSE, err |-> "InvalidRemainingLength", value |-> 0, pos |-> pos]
  ELSE IF pos >= Len(buf)
  THEN [ok |-> FALSE, err |-> "IoError", value |-> 0, pos |-> pos]
  ELSE LET byte == buf[pos + 1]
           acc == cur + (byte % 128) * Pow128(i)
       IN IF byte < 128
          THEN [ok |-> TRUE, err |-> "None", value |-> acc, pos |-> pos + 1]
          ELSE DecodeRemainingLength(buf, pos + 1, i + 1, acc)

\* FixedHeader::decode on the cursor (buf, pos): the tag byte, its high
\* nibble mapped to a control type, the low nibble taken as flags, then the
\* remaining length.
FixedHeaderDecode(buf, pos) ==
  IF pos >= Len(buf)
  THEN [ok |-> FALSE, err |-> "IoError", fh |-> NoHeader, pos |-> pos]
  ELSE LET tag == buf[pos + 1]
           code == tag \div 16
           flags == tag % 16
       IN IF \A ct \in ControlTypes : ControlCode(ct) # code
          THEN [ok |-> FALSE, err |-> "UnrecognizedControlType",
                fh |-> NoHeader, pos |-> pos + 1]
          ELSE LET ct == CHOOSE c \in ControlTypes : ControlCode(c) = code
                   len == DecodeRemainingLength(buf, pos + 1, 0, 0)
               IN IF len.ok
                  THEN [ok |-> TRUE, err |-> "None",
                        fh |-> FixedHeaderNew(ct, flags, len.value),
                        pos |-> len.pos]
                  ELSE [ok |-> FALSE, err |-> len.err, fh |-> NoHeader,
                        pos |-> len.pos]

\* --------------------------------------------- packet kinds (mod.rs 13-43)
\* The rows `$name & $errname => $hdr` handed to impl_variable_packet!.
VariantTable ==
  { <<"ConnectPacket", "ConnectPacketError", "Connect">>,
    <<"ConnackPacket", "ConnackPacketError", "ConnectAcknowledgement">>,
    <<"PublishPacket", "PublishPacketError", "Publish">>,
    <<"PubackPacket", "PubackPacketError", "PublishAcknowledgement">>,
    <<"PubrecPacket", "PubrecPacketError", "PublishReceived">>,
    <<"PubrelPacket", "PubrelPacketError", "PublishRelease">>,
    <<"PubcompPacket", "PubcompPacketError", "PublishComplete">>,
    <<"PingreqPacket", "PingreqPacketError", "PingRequest">>,
    <<"PingrespPacket", "PingrespPacketError", "PingResponse">>,
    <<"SubscribePacket", "SubscribePacketError", "Subscribe">>,
    <<"SubackPacket", "SubackPacketError", "SubscribeAcknowledgement">>,
    <<"UnsubscribePacket", "UnsubscribePacketError", "Unsubscribe">>,
    <<"UnsubackPacket", "UnsubackPacketError", "UnsubscribeAcknowledgement">> }

VariantNames == { row[1] : row \in VariantTable }
VariantControlTypes == { row[3] : row \in VariantTable }
VariantRow(ct) == CHOOSE row \in VariantTable : row[3] = ct

\* The concrete packet types the module re-exports.
PacketKinds == VariantNames \cup {"DisconnectPacket"}

\* The control type a kind's constructor puts in its fixed header.
KindControlType(kind) ==
  IF kind = "DisconnectPacket" THEN "Disconnect"
  ELSE (CHOOSE row \in VariantTable : row[1] = kind)[3]

MkPacket(kind, fh, body) == [kind |-> kind, fixed_header |-> fh, body |-> body]

NoPacket == MkPacket("None", NoHeader, <<>>)

\* DisconnectPacket::new()
DisconnectPacketNew ==
  MkPacket("DisconnectPacket",
           FixedHeaderNew("Disconnect", DefaultFlags("Disconnect"), 0), <<>>)

\* Constructor of one of the other kinds: default packet type, remaining
\* length equal to the bytes of its variable header and payload.
ExternPacketNew(kind, body) ==
  MkPacket(kind,
           FixedHeaderNew(KindControlType(kind),
                          DefaultFlags(KindControlType(kind)), Len(body)),
           body)

\* ------------------------------------------------------- Packet contract
DisconnectEncodeVariableHeadersPadded(p) == <<0>>
DisconnectEncodeVariableHeaders(p) == <<>>

DisconnectEncodedVariableHeadersLength(p) == 0

\* The payload of a DisconnectPacket is the unit value: no bytes.
DisconnectPayloadEncode(p) == <<>>

\* Variable header and payload of the other kinds, as one opaque body.
ExternEncodeVariableHeaders(p) == p.body

EncodeVariableHeaders(p) ==
  IF p.kind = "DisconnectPacket" THEN DisconnectEncodeVariableHeaders(p)
  ELSE ExternEncodeVariableHeaders(p)

EncodedVariableHeadersLength(p) ==
  IF p.kind = "DisconnectPacket" THEN DisconnectEncodedVariableHeadersLength(p)
  ELSE Len(p.body)

PayloadEncode(p) ==
  IF p.kind = "DisconnectPacket" THEN DisconnectPayloadEncode(p) ELSE <<>>

PayloadEncodedLength(p) == Len(PayloadEncode(p))

\* impl Encodable for T: Packet
PacketEncode(p) ==
  FixedHeaderEncode(p.fixed_header) \o EncodeVariableHeaders(p)
    \o PayloadEncode(p)

PacketEncodedLength(p) ==
  FixedHeaderEncodedLength(p.fixed_header) + EncodedVariableHeadersLength(p)
    + PayloadEncodedLength(p)

\* ------------------------------------------------------------- results
\* One shape for every outcome of a decode call.
\*   ok       a packet was returned
\*   variant  the VariablePacket case ("None" for a concrete kind's decode)
\*   pk       the packet
\*   err      the error case of the returned error type
\*   perr     for a wrapped per-kind error, the PacketError case
\*   cause    the condition underneath (fixed header codec, I/O)
\*   fh       the fixed header an UnrecognizedFixedHeader carries
MkOk(variant, pk) ==
  [ok |-> TRUE, variant |-> variant, pk |-> pk, err |-> "None",
   perr |-> "None", cause |-> "None", fh |-> NoHeader]

MkErr(err, perr, cause, fh) ==
  [ok |-> FALSE, variant |-> "None", pk |-> NoPacket, err |-> err,
   perr |-> perr, cause |-> cause, fh |-> fh]

\* What a decode entry point hands back to the action that called it.
\* `invoked` names the kind whose decode_packet ran ("None" when none did).
Outcome(res, pos, hdrOk, fh, hdrEnd, invoked) ==
  [res |-> res, pos |-> pos, hdr_ok |-> hdrOk, fh |-> fh, hdr_end |-> hdrEnd,
   invoked |-> invoked]

\* ------------------------------------------------------------- readers
\* read_exact of `want` bytes from the cursor (buf, pos) through a reader
\* that hands out at most `limit` further bytes.
ReadExact(buf, pos, limit, want) ==
  LET got == Min(want, Min(limit, Len(buf) - pos))
  IN [bytes |-> SubSeq(buf, pos + 1, pos + got), pos |-> pos + got,
      eof |-> got < want]

\* reader.take(fixed_header.remaining_length as u64)
TakeLimitUnbounded(buf, pos, fh) == Len(buf) - pos
TakeLimitOffByOne(buf, pos, fh) == fh.remaining_length + 1
TakeLimit(buf, pos, fh) == fh.remaining_length

\* A reader that is not wrapped: everything left in the buffer.
CursorLimit(buf, pos) == Len(buf) - pos

\* ------------------------------------------------------- decode_packet
\* DisconnectPacket::decode_packet: the reader is not touched.
DisconnectDecodePacket(buf, pos, limit, fh) ==
  [ok |-> TRUE, pk |-> MkPacket("DisconnectPacket", fh, <<>>),
   err |-> "None", pos |-> pos]

\* decode_packet of one of the other kinds.  Its behaviour on this input is
\* a parameter: it asks its reader for `want` bytes and, having got them,
\* accepts them or reports a malformed packet.
ExternDecodePacket(kind, buf, pos, limit, fh, want, accept) ==
  LET r == ReadExact(buf, pos, limit, want)
  IN IF r.eof
     THEN [ok |-> FALSE, pk |-> NoPacket, err |-> "IoError", pos |-> r.pos]
     ELSE IF ~accept
     THEN [ok |-> FALSE, pk |-> NoPacket, err |-> "MalformedPacket",
           pos |-> r.pos]
     ELSE [ok |-> TRUE, pk |-> MkPacket(kind, fh, r.bytes), err |-> "None",
           pos |-> r.pos]

\* <$name as Packet>::decode_packet(reader, fixed_header)
DecodePacket(kind, buf, pos, limit, fh, want, accept) ==
  IF kind = "DisconnectPacket" THEN DisconnectDecodePacket(buf, pos, limit, fh)
  ELSE ExternDecodePacket(kind, buf, pos, limit, fh, want, accept)

\* A collaborator that conforms to the contract on well-formed input reads
\* the whole body its header declares and accepts it.
Conforming(fh, want, accept) == want = fh.remaining_length /\ accept

\* --------------------------------- impl Decodable for T: Packet (73-88)
\* decode_with(reader, fixed_header): `supplied` tells whether the caller
\* passed Some(fh0).
PacketDecodeWith(kind, buf, pos, supplied, fh0, want, accept) ==
  LET hdr == IF supplied
             THEN [ok |-> TRUE, err |-> "None", fh |-> fh0, pos |-> pos]
             ELSE FixedHeaderDecode(buf, pos)
  IN IF ~hdr.ok
     THEN Outcome(MkErr("FixedHeaderError", "None", hdr.err, NoHeader),
                  hdr.pos, FALSE, NoHeader, hdr.pos, "None")
     ELSE LET r == DecodePacket(kind, buf, hdr.pos, CursorLimit(buf, hdr.pos),
                                hdr.fh, want, accept)
          IN Outcome(IF r.ok THEN MkOk("None", r.pk)
                     ELSE MkErr(r.err, "None", "None", NoHeader),
                     r.pos, TRUE, hdr.fh, hdr.pos, kind)

\* ------------------------------------ VariablePacket (mod.rs 161-308)
\* From<$name> for VariablePacket / VariablePacket::new: there is one
\* conversion per row of the table.
HasVariant(kind) == kind \in VariantNames

\* Encodable for VariablePacket: routes to the held packet.
VariablePacketEncode(p) == PacketEncode(p)

VariablePacketEncodedLength(p) == PacketEncodedLength(p)

\* The arm of `match fixed_header.packet_type.control_type`.
DispatchArms == VariantControlTypes

\* How a failure of FixedHeader::decode leaves VariablePacket::decode_with.
HeaderFailureAsUnrecognized(cause) ==
  MkErr("UnrecognizedFixedHeader", "None", cause, NoHeader)
HeaderFailure(cause) == MkErr("FixedHeaderError", "None", cause, NoHeader)

VariablePacketDecodeWith(buf, pos, supplied, fh0, want, accept) ==
  LET hdr == IF supplied
             THEN [ok |-> TRUE, err |-> "None", fh |-> fh0, pos |-> pos]
             ELSE FixedHeaderDecode(buf, pos)
  IN IF ~hdr.ok
     THEN Outcome(HeaderFailure(hdr.err), hdr.pos, FALSE, NoHeader, hdr.pos,
                  "None")
     ELSE IF hdr.fh.control_type \in DispatchArms
     THEN LET kind == VariantRow(hdr.fh.control_type)[1]
              errname == VariantRow(hdr.fh.control_type)[2]
              r == DecodePacket(kind, buf, hdr.pos,
                                TakeLimit(buf, hdr.pos, hdr.fh), hdr.fh,
                                want, accept)
          IN Outcome(IF r.ok THEN MkOk(kind, r.pk)
                     ELSE MkErr(errname, r.err, "None", NoHeader),
                     r.pos, TRUE, hdr.fh, hdr.pos, kind)
     ELSE Outcome(MkErr("UnrecognizedFixedHeader", "None", "None", hdr.fh),
                  hdr.pos, TRUE, hdr.fh, hdr.pos, "None")

\* ---------------------------------------------------------------- state
VARIABLES
  buf,        \* the bytes of the stream (a Vec<u8> under a Cursor)
  pos,        \* the cursor: how many bytes of buf have been consumed
  phase,      \* "write" while the stream is filled, "read" afterwards
  sent,       \* the packets encoded into buf, in order
  clean,      \* buf holds the encodings of `sent` and nothing else
  orderly,    \* buf is clean, every call so far was VariablePacket::decode
              \* and every collaborator it reached behaved as the contract
              \* demands of it on well-formed input
  recv,       \* the results of the calls of an orderly read, in order
              \* (forgotten once the read is no longer orderly)
  last        \* the most recent decode call

vars == <<buf, pos, phase, sent, clean, orderly, recv, last>>

\* Kinds the encoders build packets of, and kinds whose own decode is called.
EncKinds == {"ConnectPacket", "SubscribePacket"}
DecKinds == {"DisconnectPacket", "ConnectPacket"}

RECURSIVE SeqsUpTo(_, _)
SeqsUpTo(S, n) ==
  IF n = 0 THEN {<<>>}
  ELSE LET shorter == SeqsUpTo(S, n - 1)
       IN shorter \cup { Append(q, x) : q \in shorter, x \in S }

Bodies == SeqsUpTo(BodyBytes, MaxBody)

\* Fixed headers a caller may pass to decode_with.
SuppliedHeaders ==
  { FixedHeaderNew(ct, DefaultFlags(ct), n) :
      ct \in ControlTypes, n \in 0..MaxSuppliedLen }

NoCall ==
  [api |-> "None", kind |-> "None", supplied |-> FALSE, start |-> 0,
   hdr_ok |-> FALSE, fh |-> NoHeader, hdr_end |-> 0, end |-> 0,
   invoked |-> "None", want |-> 0, accept |-> FALSE,
   res |-> MkOk("None", NoPacket)]

Init ==
  /\ buf = <<>>
  /\ pos = 0
  /\ phase = "write"
  /\ sent = <<>>
  /\ clean = TRUE
  /\ orderly = TRUE
  /\ recv = <<>>
  /\ last = NoCall

\* ---------------------------------------------------------------- writers
\* A peer puts one arbitrary byte on the wire (at most `max` bytes in all).
WriteRawUpTo(b, max) ==
  /\ phase = "write"
  /\ Len(buf) < max
  /\ buf' = Append(buf, b)
  /\ clean' = FALSE
  /\ orderly' = FALSE
  /\ UNCHANGED <<pos, phase, sent, recv, last>>

WriteRaw(b) == WriteRawUpTo(b, MaxStream)

\* The bytes that follow a fixed header the caller has already parsed.
WriteBody(b) == WriteRawUpTo(b, MaxSuppliedStream)

\* DisconnectPacket::new().encode(&mut buf)
EncodeDisconnect ==
  LET p == DisconnectPacketNew
      bytes == PacketEncode(p)
  IN /\ phase = "write"
     /\ Len(buf) + Len(bytes) <= MaxStream
     /\ buf' = buf \o bytes
     /\ sent' = Append(sent, p)
     /\ UNCHANGED <<pos, phase, clean, orderly, recv, last>>

\* VariablePacket::new(p).encode(&mut buf) for a packet of a kind that has a
\* conversion into VariablePacket.
EncodeVariable(kind, body) ==
  LET p == ExternPacketNew(kind, body)
      bytes == VariablePacketEncode(p)
  IN /\ phase = "write"
     /\ HasVariant(kind)
     /\ Len(buf) + Len(bytes) <= MaxStream
     /\ buf' = buf \o bytes
     /\ sent' = Append(sent, p)
     /\ UNCHANGED <<pos, phase, clean, orderly, recv, last>>

\* Cursor::new(buf)
StartRead ==
  /\ phase = "write"
  /\ phase' = "read"
  /\ UNCHANGED <<buf, pos, sent, clean, orderly, recv, last>>

\* ---------------------------------------------------------------- readers
CallRecord(api, kind, supplied, want, accept, o) ==
  [api |-> api, kind |-> kind, supplied |-> supplied, start |-> pos,
   hdr_ok |-> o.hdr_ok, fh |-> o.fh, hdr_end |-> o.hdr_end, end |-> o.pos,
   invoked |-> o.invoked,
   want |-> IF o.invoked \in VariantNames THEN want ELSE 0,
   accept |-> IF o.invoked \in VariantNames THEN accept ELSE FALSE,
   res |-> o.res]

StillOrderly(api, want, accept, o) ==
  /\ orderly
  /\ api = "VariablePacket::decode"
  /\ o.invoked \in VariantNames => Conforming(o.fh, want, accept)

Returned(api, kind, supplied, want, accept, o) ==
  /\ pos' = o.pos
  /\ last' = CallRecord(api, kind, supplied, want, accept, o)
  /\ orderly' = StillOrderly(api, want, accept, o)
  /\ recv' = IF StillOrderly(api, want, accept, o) THEN Append(recv, o.res)
             ELSE <<>>
  /\ UNCHANGED <<buf, phase, sent, clean>>

\* VariablePacket::decode(&mut cursor)
VariableDecode(want, accept) ==
  /\ phase = "read"
  /\ Len(recv) < MaxCalls
  /\ Returned("VariablePacket::decode", "VariablePacket", FALSE, want, accept,
              VariablePacketDecodeWith(buf, pos, FALSE, NoHeader, want, accept))

\* <kind>::decode(&mut cursor)
PacketDecode(kind, want, accept) ==
  /\ phase = "read"
  /\ Returned("Packet::decode", kind, FALSE, want, accept,
              PacketDecodeWith(kind, buf, pos, FALSE, NoHeader, want, accept))

\* VariablePacket::decode_with(&mut cursor, Some(fh)).  The dispatcher keeps
\* no state between calls, so one call per behaviour is explored.
VariableDecodeSupplied(fh, want, accept) ==
  /\ phase = "read"
  /\ last = NoCall
  /\ Returned("VariablePacket::decode_with", "VariablePacket", TRUE, want,
              accept,
              VariablePacketDecodeWith(buf, pos, TRUE, fh, want, accept))

\* <kind>::decode_with(&mut cursor, Some(fh))
PacketDecodeSupplied(kind, fh, want, accept) ==
  /\ phase = "read"
  /\ last = NoCall
  /\ Returned("Packet::decode_with", kind, TRUE, want, accept,
              PacketDecodeWith(kind, buf, pos, TRUE, fh, want, accept))

\* Streams read through decode.
Next ==
  \/ \E b \in RawBytes : WriteRaw(b)
  \/ EncodeDisconnect
  \/ \E kind \in EncKinds, body \in Bodies : EncodeVariable(kind, body)
  \/ StartRead
  \/ \E want \in 0..MaxWant, accept \in BOOLEAN : VariableDecode(want, accept)
  \/ \E kind \in DecKinds, want \in 0..MaxWant, accept \in BOOLEAN :
       PacketDecode(kind, want, accept)

Spec == Init /\ [][Next]_vars

\* decode_with called with a fixed header the caller supplies.
NextWith ==
  \/ \E b \in RawBytes : WriteBody(b)
  \/ StartRead
  \/ \E fh \in SuppliedHeaders, want \in 0..MaxWant, accept \in BOOLEAN :
       VariableDecodeSupplied(fh, want, accept)
  \/ \E kind \in DecKinds, fh \in SuppliedHeaders, want \in 0..MaxWant,
        accept \in BOOLEAN :
       PacketDecodeSupplied(kind, fh, want, accept)

SpecWith == Init /\ [][NextWith]_vars

\* ---------------------------------------------------------------- claims
\* The packet type that carries control type ct.
KindOf(ct) == CHOOSE k \in PacketKinds : KindControlType(k) = ct

\* The bytes left in the stream after the header of the last call.
AvailAfterHeader == Len(buf) - last.hdr_end

\* The last call was made through entry point `api`.
LastWas(api) == last.api = api

\* The tag byte the last call started at has a control-type nibble that maps
\* to no control type.
UnmappedTagRead ==
  /\ last.start < Len(buf)
  /\ \A ct \in ControlTypes : ControlCode(ct) # buf[last.start + 1] \div 16

\* C1: a packet of any concrete kind, encoded and then decoded through
\* VariablePacket::decode from exactly those bytes, comes back as the
\* aggregate case of its kind holding an equal packet.
C1_RoundTripAnyKind ==
  (orderly /\ Len(sent) = 1 /\ Len(recv) >= 1) =>
    /\ recv[1].ok
    /\ recv[1].variant = sent[1].kind
    /\ recv[1].pk = sent[1]

\* C2: VariablePacket::decode_with on a fixed header of any of the 14
\* control types invokes that kind's decode_packet, returns that kind's case
\* when it succeeds, and never answers UnrecognizedFixedHeader.
C2_DispatchTotal ==
  (LastWas("VariablePacket::decode_with")
     /\ last.fh.control_type \in ControlTypes) =>
    /\ last.invoked = KindOf(last.fh.control_type)
    /\ last.res.err # "UnrecognizedFixedHeader"
    /\ last.res.ok => last.res.variant = KindOf(last.fh.control_type)

\* C3 as stated: VariablePacket::decode on a tag byte whose control-type
\* nibble has no mapping fails with UnrecognizedFixedHeader.
C3_UnknownTagUnrecognized ==
  (LastWas("VariablePacket::decode") /\ UnmappedTagRead) =>
    /\ ~last.res.ok
    /\ last.res.err = "UnrecognizedFixedHeader"

\* C3 as amended: VariablePacket::decode on a tag byte whose control-type
\* nibble has no mapping returns no packet and fails with the aggregate
\* FixedHeaderError (the fixed header could not be parsed);
\* UnrecognizedFixedHeader is returned only for a fixed header that was
\* parsed and whose control type has no arm in the dispatcher, and it carries
\* that header.
C3_UnknownTagIsHeaderError ==
  LastWas("VariablePacket::decode") =>
    /\ UnmappedTagRead =>
         /\ ~last.res.ok
         /\ last.res.pk = NoPacket
         /\ last.res.err = "FixedHeaderError"
         /\ last.res.cause = "UnrecognizedControlType"
    /\ last.res.err = "UnrecognizedFixedHeader" =>
         /\ last.hdr_ok
         /\ last.res.fh = last.fh
         /\ last.fh.control_type \in ControlTypes \ DispatchArms

\* Scenario C was run: the stream 0x00 0x00 went through
\* VariablePacket::decode.
C3_Witness ==
  /\ buf = <<0, 0>>
  /\ LastWas("VariablePacket::decode")
  /\ last.start = 0
  /\ last.res.err = "FixedHeaderError"

\* C4: a decode whose fixed header declares more bytes than the stream holds
\* after the header returns no packet and fails with an I/O short read.
\* (Stated for the calls decided by DisconnectPacket and the dispatcher
\* alone, where no other kind's decode_packet ran.)
C4_TruncatedIsError ==
  (last.api \in {"VariablePacket::decode", "Packet::decode"}
     /\ last.hdr_ok
     /\ last.invoked \notin VariantNames
     /\ last.fh.remaining_length > AvailAfterHeader) =>
    /\ ~last.res.ok
    /\ "IoError" \in {last.res.err, last.res.perr}

\* C5: one VariablePacket::decode call consumes at most its fixed header
\* plus remaining_length further bytes, whatever the kind's decode_packet
\* asks for; a read past that boundary gets end-of-input.
C5_NoReadAhead ==
  LastWas("VariablePacket::decode") =>
    /\ last.end <= last.hdr_end + last.fh.remaining_length
    /\ (last.invoked \in VariantNames
          /\ last.want > last.fh.remaining_length) =>
         /\ ~last.res.ok
         /\ last.res.perr = "IoError"
         /\ last.end = last.hdr_end + Min(last.fh.remaining_length,
                                          AvailAfterHeader)

\* A decode_packet asked for more than its packet holds while bytes of the
\* next packet were in the stream, and was stopped at the boundary.
C5_Witness ==
  /\ LastWas("VariablePacket::decode")
  /\ last.invoked \in VariantNames
  /\ last.want > last.fh.remaining_length
  /\ AvailAfterHeader > last.fh.remaining_length
  /\ last.end = last.hdr_end + last.fh.remaining_length
  /\ last.res.perr = "IoError"

\* C6: decoding repeatedly from a stream that is the concatenation of k
\* encoded packets yields those k packets in order and leaves the stream
\* empty.
C6_ConcatenationDecodes ==
  (orderly /\ phase = "read" /\ Len(sent) >= 1 /\ Len(recv) = Len(sent)) =>
    /\ pos = Len(buf)
    /\ \A i \in 1..Len(sent) : recv[i].ok /\ recv[i].pk = sent[i]

\* C7: DisconnectPacket::new() encodes to exactly 0xE0 0x00, and decoding
\* those two bytes as a DisconnectPacket yields a packet equal to
\* DisconnectPacket::new(), with nothing left in the stream.
C7_ScenarioA ==
  (clean /\ Len(sent) = 1 /\ sent[1].kind = "DisconnectPacket") =>
    /\ sent[1] = DisconnectPacketNew
    /\ buf = <<224, 0>>
    /\ PacketEncodedLength(sent[1]) = 2
    /\ (LastWas("Packet::decode") /\ last.kind = "DisconnectPacket"
          /\ last.start = 0) =>
         /\ last.res.ok
         /\ last.res.pk = DisconnectPacketNew
         /\ last.res.pk.body = <<>>
         /\ last.end = 2

\* Scenario A was run: the encoded DisconnectPacket was decoded as one.
C7_Witness ==
  /\ clean
  /\ sent = <<DisconnectPacketNew>>
  /\ LastWas("Packet::decode")
  /\ last.kind = "DisconnectPacket"
  /\ last.start = 0
  /\ last.res.ok

\* C8: every DisconnectPacket a decode returns has a remaining_length equal
\* to its variable header length plus its payload length, that is 0.
C8_RemainingLengthInvariant ==
  (last.res.ok /\ last.res.pk.kind = "DisconnectPacket") =>
    last.res.pk.fixed_header.remaining_length =
      EncodedVariableHeadersLength(last.res.pk)
        + PayloadEncodedLength(last.res.pk)

\* C9 as stated: when at least remaining_length bytes follow the header,
\* the cursor stands exactly remaining_length bytes past the header after
\* VariablePacket::decode returns, whatever it returns.
C9_ResyncAfterAnyOutcome ==
  (LastWas("VariablePacket::decode") /\ last.hdr_ok
     /\ AvailAfterHeader >= last.fh.remaining_length) =>
    last.end = last.hdr_end + last.fh.remaining_length

\* C9 as amended: when at least remaining_length bytes follow the header,
\* after VariablePacket::decode returns the cursor stands at most
\* remaining_length bytes past the header: at the end of the header after
\* UnrecognizedFixedHeader, and otherwise past it by exactly the bytes the
\* kind's decode_packet read (what it asked for, cut at remaining_length).
\* The rest of the packet is not skipped.
C9_CursorAfterDecode ==
  (LastWas("VariablePacket::decode") /\ last.hdr_ok
     /\ AvailAfterHeader >= last.fh.remaining_length) =>
    /\ last.end <= last.hdr_end + last.fh.remaining_length
    /\ last.res.err = "UnrecognizedFixedHeader" => last.end = last.hdr_end
    /\ last.invoked \in VariantNames =>
         last.end = last.hdr_end + Min(last.want, last.fh.remaining_length)
    /\ last.invoked \notin VariantNames =>
         last.res.err = "UnrecognizedFixedHeader"

\* A decode returned with part of its packet unread: the cursor is short of
\* the next packet's tag byte.
C9_Witness ==
  /\ LastWas("VariablePacket::decode")
  /\ last.hdr_ok
  /\ AvailAfterHeader >= last.fh.remaining_length
  /\ last.invoked \in VariantNames
  /\ ~last.res.ok
  /\ last.end < last.hdr_end + last.fh.remaining_length

\* C10: a DisconnectPacket returned by DisconnectPacket's decode has a fixed
\* header whose control type is Disconnect.
C10_KindConsistency ==
  (last.res.ok /\ last.res.pk.kind = "DisconnectPacket") =>
    last.res.pk.fixed_header.control_type = KindControlType(last.res.pk.kind)

====
